---- MODULE Spec2Model ----
(***************************************************************************)
(* Game Tracker (src/app.js): the GameTracker class as a state machine.    *)
(*                                                                         *)
(* Numbers with a fractional part are kept as integers in tenths: a weight *)
(* rating/5 is 2*rating tenths, the time-period bonus 1 / 0.5 is 10 / 5    *)
(* tenths, a score of 4.0 is 40 tenths.                                    *)
(* Text that the code cuts or compares by character (notes, titles) is a   *)
(* sequence of one-character strings; genres and themes, which these       *)
(* operations only compare for equality, are strings.                      *)
(***************************************************************************)
EXTENDS Integers, Sequences, FiniteSets, TLC

VARIABLES
    pc,             \* "start" | "loading" | "ready" | "crashed": position of new GameTracker() / init()
    storage,        \* localStorage item 'gameTrackerProgress'
    games,          \* this.games
    userProgress,   \* this.userProgress
    currentGameId,  \* this.currentGameId
    filters,        \* this.filters
    loadFailed,     \* loadGames took its catch branch (showError was called)
    listeners,      \* attachEventListeners has run
    genreOptions,   \* the options populateGenreFilter appended to #genre-filter
    gamesGrid,      \* #games-grid innerHTML
    statsView,      \* the four statistics elements
    recSection,     \* #recommendations-section style.display
    recGrid,        \* #recommendations-grid innerHTML (ids of the cards)
    modalActive,    \* #game-modal has the class "active"
    lastCall        \* under SpecCalls: the handler that ran last and its argument

vars == <<pc, storage, games, userProgress, currentGameId, filters, loadFailed,
          listeners, genreOptions, gamesGrid, statsView, recSection, recGrid, modalActive,
          lastCall>>

-----------------------------------------------------------------------------
(* Bounds of the model *)

\* longest text typed into the notes field
MaxNoteLen == 1
\* number of items of the large catalog
RecCatalogSize == 9
\* most records of a persisted store read at startup of the large catalog
MaxTouched == 2
\* longest text typed into the search field
MaxSearchLen == 1

(* Program constants *)

\* this.currentGameId = null
Null == -1
\* .slice(0, 6)
MaxRecommendations == 6
\* the star widgets carry data-rating 1..5
MaxStars == 5
\* the notes counter shows `${currentLength} / 1000`
NotesLimit == 1000
\* variant: one rated game is enough
MinRatedOne == MaxStars - 4

\* need at least 2 rated games
MinRated == 2

-----------------------------------------------------------------------------
(* Generic helpers *)

Abs(x) == IF x < 0 THEN -x ELSE x

Range(s) == {s[i] : i \in 1..Len(s)}

RECURSIVE SumSeq(_)
SumSeq(s) == IF s = <<>> THEN 0 ELSE Head(s) + SumSeq(Tail(s))

\* Array.prototype.filter, as the sequence of kept positions
RECURSIVE KeptIndices(_, _, _)
KeptIndices(n, keep, i) ==
    IF i > n THEN <<>>
    ELSE (IF i \in keep THEN <<i>> ELSE <<>>) \o KeptIndices(n, keep, i + 1)

\* (a value bound by CHOOSE v \in {e} is computed once)
FilterSeq(s, Test(_)) ==
    CHOOSE r \in { LET idx == KeptIndices(Len(v), {i \in 1..Len(v) : Test(v[i])}, 1)
                   IN  [k \in 1..Len(idx) |-> v[idx[k]]] : v \in {s} } : TRUE

\* Array.prototype.sort with a consistent comparator (stable): Less(a, b) is
\* "compare(a, b) < 0"
StableSort(s, Less(_, _)) ==
    CHOOSE r \in { LET n == Len(v)
                       Pos(i) == 1 + Cardinality({j \in 1..n :
                                       \/ Less(v[j], v[i])
                                       \/ (~Less(v[i], v[j]) /\ j < i)})
                   IN  CHOOSE sorted \in { [p \in 1..n |-> v[CHOOSE i \in 1..n : pos[i] = p]]
                                           : pos \in {[i \in 1..n |-> Pos(i)]} } : TRUE
                   : v \in {s} } : TRUE

\* String.prototype.trim on a sequence of characters
IsSpace(c) == c = " "

RECURSIVE TrimLeft(_)
TrimLeft(s) == IF s # <<>> /\ IsSpace(Head(s)) THEN TrimLeft(Tail(s)) ELSE s

RECURSIVE TrimRight(_)
TrimRight(s) ==
    IF s # <<>> /\ IsSpace(s[Len(s)]) THEN TrimRight(SubSeq(s, 1, Len(s) - 1)) ELSE s

Trim(s) == TrimRight(TrimLeft(s))

\* JavaScript truthiness of a game id or of null
Falsy(id) == id = Null \/ id = 0

-----------------------------------------------------------------------------
(* Catalogs that games.json may hold *)

\* the characters of the model's texts, in ascending order of their code units
Alphabet ==
    << "A", "B", "C", "D", "E", "F", "G", "H", "I", "J", "K", "L", "M",
       "N", "O", "P", "Q", "R", "S", "T", "U", "V", "W", "X", "Y", "Z" >>

LowerAlphabet ==
    << "a", "b", "c", "d", "e", "f", "g", "h", "i", "j", "k", "l", "m",
       "n", "o", "p", "q", "r", "s", "t", "u", "v", "w", "x", "y", "z" >>

CodeUnits == <<" ", "-">> \o Alphabet \o LowerAlphabet

CharRanks == [c \in {CodeUnits[i] : i \in 1..Len(CodeUnits)} |->
                  CHOOSE i \in 1..Len(CodeUnits) : CodeUnits[i] = c]

CharRank(c) == CharRanks[c]

\* String.prototype.toLowerCase
LowerChars == [c \in {CodeUnits[i] : i \in 1..Len(CodeUnits)} |->
                  IF \E i \in 1..Len(Alphabet) : Alphabet[i] = c
                  THEN LowerAlphabet[CHOOSE i \in 1..Len(Alphabet) : Alphabet[i] = c]
                  ELSE c]

LowerChar(c) == LowerChars[c]

toLowerCase(s) == [i \in 1..Len(s) |-> LowerChar(s[i])]

\* String.prototype.includes
includes(s, part) ==
    \E i \in 0..(Len(s) - Len(part)) : SubSeq(s, i + 1, i + Len(part)) = part

\* the characters of a genre or theme name
Chars(name) ==
    CASE name = "RPG"        -> <<"R", "P", "G">>
      [] name = "Puzzle"     -> <<"P", "u", "z", "z", "l", "e">>
      [] name = "Action"     -> <<"A", "c", "t", "i", "o", "n">>
      [] name = "Fantasy"    -> <<"F", "a", "n", "t", "a", "s", "y">>
      [] name = "Abstract"   -> <<"A", "b", "s", "t", "r", "a", "c", "t">>
      [] name = "Sci-Fi"     -> <<"S", "c", "i", "-", "F", "i">>
      [] name = "Story-Rich" -> <<"S", "t", "o", "r", "y", "-", "R", "i", "c", "h">>

\* a < b in code-unit order (the default order of Array.prototype.sort)
RECURSIVE TextBefore(_, _)
TextBefore(a, b) ==
    IF b = <<>> THEN FALSE
    ELSE IF a = <<>> THEN TRUE
    ELSE IF Head(a) # Head(b) THEN CharRank(Head(a)) < CharRank(Head(b))
    ELSE TextBefore(Tail(a), Tail(b))

Genres == <<"RPG", "Puzzle", "Action">>

Themes == <<"Fantasy", "Abstract", "Sci-Fi", "Story-Rich">>

Item(id, title, year, genre, themes) ==
    [id |-> id, title |-> title, year |-> year, genre |-> genre, themes |-> themes]

\* the catalog of the worked example of the specification
ExampleCatalog ==
    << Item(1, <<"A">>, 2000, "RPG", <<"Fantasy">>),
       Item(2, <<"B">>, 2001, "RPG", <<"Fantasy">>),
       Item(3, <<"C">>, 1990, "Puzzle", <<"Abstract">>) >>

\* a catalog whose ids start at 0
ZeroCatalog ==
    << Item(0, <<"B">>, 1998, "Action", <<"Sci-Fi">>),
       Item(1, <<"A">>, 2003, "Action", <<"Sci-Fi", "Story-Rich">>) >>

EmptyCatalog == <<>>

\* a catalog large enough for more than six candidates
RecCatalog ==
    [i \in 1..RecCatalogSize |->
        Item(i, <<Alphabet[i]>>, 1990 + 3 * i, Genres[(i % 3) + 1],
             <<Themes[(i % 2) + 1], Themes[(i % 4) + 1]>>)]

Catalogs == {ExampleCatalog, ZeroCatalog, EmptyCatalog}

-----------------------------------------------------------------------------
(* Progress records and their persisted form *)

Record(played, rating, notes) == [played |-> played, rating |-> rating, notes |-> notes]

DefaultProgress == Record(FALSE, 0, <<>>)

EmptyStore == [k \in {} |-> DefaultProgress]

\* JSON.stringify(this.userProgress): the own properties in ascending order of
\* their integer keys, one entry per key
JSONstringify(progress) ==
    LET keys == DOMAIN progress
        Rank(k) == 1 + Cardinality({j \in keys : j < k})
    IN  [p \in 1..Cardinality(keys) |->
            LET k == CHOOSE k \in keys : Rank(k) = p
            IN  [key |-> k, value |-> progress[k]]]

\* JSON.parse of the text of an object: the last entry of a key wins
JSONparse(entries) ==
    [k \in {entries[i].key : i \in 1..Len(entries)} |->
        LET last == CHOOSE i \in 1..Len(entries) :
                        /\ entries[i].key = k
                        /\ \A j \in (i + 1)..Len(entries) : entries[j].key # k
        IN  entries[last].value]

\* values of localStorage.getItem('gameTrackerProgress'): null (no item), the
\* empty string, a text JSON.parse rejects, or the text of an object
NoItem       == [kind |-> "null", entries |-> <<>>]
EmptyText    == [kind |-> "empty", entries |-> <<>>]
Malformed    == [kind |-> "malformed", entries |-> <<>>]
ObjectText(entries) == [kind |-> "object", entries |-> entries]

\* `saved ? ... : ...`
Truthy(saved) == saved.kind \notin {"null", "empty"}

\* JSON.parse(saved) throws a SyntaxError
ParseThrows(saved) == saved.kind = "malformed"

loadProgress(saved) ==
    IF Truthy(saved) THEN JSONparse(saved.entries) ELSE EmptyStore

getGameProgress(progress, gameId) ==
    IF gameId \in DOMAIN progress THEN progress[gameId] ELSE DefaultProgress

\* variant: the fields the update does not name are those of a new record
Spread_NewOnly(old, new) ==
    [f \in DOMAIN old |-> IF f \in DOMAIN new THEN new[f] ELSE DefaultProgress[f]]

\* { ...this.getGameProgress(gameId), ...progress }
Spread(old, new) == [f \in DOMAIN old |-> IF f \in DOMAIN new THEN new[f] ELSE old[f]]

\* this.userProgress[gameId] = ...
Assign(progress, gameId, rec) ==
    [k \in DOMAIN progress \cup {gameId} |-> IF k = gameId THEN rec ELSE progress[k]]

-----------------------------------------------------------------------------
(* Statistics *)

\* Number.prototype.toFixed(digits) of num/den >= 0, as an integer in units of
\* 10^-digits: the nearest, the larger of two equally near
Pow10(d) == IF d = 0 THEN 1 ELSE 10

ToFixed(num, den, digits) == (2 * num * Pow10(digits) + den) \div (2 * den)

calculateStats(gms, progress) ==
    LET playedKeys == {k \in DOMAIN progress : progress[k].played}
        ratedKeys  == {k \in playedKeys : progress[k].rating > 0}
        RECURSIVE Total(_)
        Total(ks) == IF ks = {} THEN 0
                     ELSE LET k == CHOOSE k \in ks : TRUE
                          IN  progress[k].rating + Total(ks \ {k})
        playedCount == Cardinality(playedKeys)
        ratedCount  == Cardinality(ratedKeys)
        totalRating == Total(ratedKeys)
    IN  [ playedCount   |-> playedCount,
          unplayedCount |-> Len(gms) - playedCount,
          avgRating     |-> IF ratedCount > 0
                            THEN [kind |-> "number", value |-> ToFixed(totalRating, ratedCount, 1)]
                            ELSE [kind |-> "-", value |-> 0],
          completionPercentage |->
                            IF Len(gms) = 0
                            THEN (IF playedCount = 0
                                  THEN [kind |-> "NaN%", value |-> 0]
                                  ELSE [kind |-> "Infinity%", value |-> 0])
                            ELSE [kind |-> "%", value |-> ToFixed(playedCount * 100, Len(gms), 0)] ]

-----------------------------------------------------------------------------
(* Recommendation system *)

IsRated(progress, game) ==
    LET progressOf == getGameProgress(progress, game.id)
    IN  progressOf.played /\ progressOf.rating > 0

ratedGames(gms, progress) ==
    LET Test(game) == IsRated(progress, game)
    IN  FilterSeq(gms, Test)

highlyRatedGames(gms, progress) ==
    LET Test(game) == getGameProgress(progress, game.id).rating >= 4
    IN  FilterSeq(ratedGames(gms, progress), Test)

FallbackGames(gms, progress) ==
    LET Test(game) == getGameProgress(progress, game.id).rating >= 3
    IN  FilterSeq(ratedGames(gms, progress), Test)

\* variant: the games rated 3 or more, whether or not one is rated 4 or more
preferredGames_ThreePlus(gms, progress) == FallbackGames(gms, progress)

preferredGames(gms, progress) ==
    IF Len(highlyRatedGames(gms, progress)) > 0
    THEN highlyRatedGames(gms, progress)
    ELSE FallbackGames(gms, progress)

\* rating / 5, in tenths
Weight(progress, game) == 2 * getGameProgress(progress, game.id).rating

\* genreWeights[genre] || 0, in tenths
genreWeights(preferred, progress, genre) ==
    SumSeq([i \in 1..Len(preferred) |->
                IF preferred[i].genre = genre THEN Weight(progress, preferred[i]) ELSE 0])

\* themeWeights[theme] || 0, in tenths: a game adds its weight once for every
\* occurrence of the theme in its list
themeWeights(preferred, progress, theme) ==
    SumSeq([i \in 1..Len(preferred) |->
                Weight(progress, preferred[i])
                  * Cardinality({j \in 1..Len(preferred[i].themes) :
                                    preferred[i].themes[j] = theme})])

\* variant: every game is a candidate
unplayedGames_All(gms, progress) == gms

unplayedGames(gms, progress) ==
    LET Test(game) == ~getGameProgress(progress, game.id).played
    IN  FilterSeq(gms, Test)

\* the bonus for a similar time period, in tenths; yearDiff = |year - sum/n| is
\* compared after multiplying through by n
YearBonus(preferred, game) ==
    LET n        == Len(preferred)
        sum      == SumSeq([i \in 1..n |-> preferred[i].year])
        yearDiff == Abs(game.year * n - sum)
    IN  IF yearDiff <= 5 * n THEN 10
        ELSE IF yearDiff <= 10 * n THEN 5
        ELSE 0

\* the score of one unplayed game, in tenths
Score(preferred, progress, game) ==
      2 * genreWeights(preferred, progress, game.genre)
    + SumSeq([j \in 1..Len(game.themes) |-> themeWeights(preferred, progress, game.themes[j])])
    + YearBonus(preferred, game)

\* variant: the scored candidates in catalog order
scoredGames_Unsorted(gms, progress) ==
    LET preferred == preferredGames(gms, progress)
        unplayed  == unplayedGames(gms, progress)
    IN  [i \in 1..Len(unplayed) |->
            [game |-> unplayed[i], score |-> Score(preferred, progress, unplayed[i])]]

scoredGames(gms, progress) ==
    LET preferred == preferredGames(gms, progress)
        unplayed  == unplayedGames(gms, progress)
        scored    == [i \in 1..Len(unplayed) |->
                        [game |-> unplayed[i], score |-> Score(preferred, progress, unplayed[i])]]
        Less(a, b) == b.score - a.score < 0
    IN  StableSort(scored, Less)

Slice(s, n) == SubSeq(s, 1, IF Len(s) < n THEN Len(s) ELSE n)

\* the scored entries that are returned, in order
TopScored(gms, progress) ==
    LET Positive(item) == item.score > 0
    IN  Slice(FilterSeq(scoredGames(gms, progress), Positive), MaxRecommendations)

\* variant: no minimum number of rated games
generateRecommendations_NoMinimum(gms, progress) ==
    IF Len(preferredGames(gms, progress)) = 0 THEN <<>>
    ELSE LET top == TopScored(gms, progress)
         IN  [i \in 1..Len(top) |-> top[i].game]

generateRecommendations(gms, progress) ==
    IF Len(ratedGames(gms, progress)) < MinRated THEN <<>>
    ELSE IF Len(preferredGames(gms, progress)) = 0 THEN <<>>
    ELSE LET top == TopScored(gms, progress)
         IN  [i \in 1..Len(top) |-> top[i].game]

-----------------------------------------------------------------------------
(* Filtering, sorting and rendering of the game list *)

\* a.title.localeCompare(b.title) < 0, for titles of capital letters, which
\* the locale orders alphabetically
TitleBefore(a, b) == TextBefore(a, b)

\* the values of the decade options, and parseInt of one
DecadeOptions == <<"1980", "1990", "2000", "2010", "2020">>

parseInt(text) == 1970 + 10 * (CHOOSE i \in 1..Len(DecadeOptions) : DecadeOptions[i] = text)

\* variant: the decade ends with the first year of the next one
endYear_NextDecade(startYear) == startYear + 10

\* const endYear = startYear + 9
endYear(startYear) == startYear + 9

DefaultFilters ==
    [search |-> <<>>, genre |-> "", decade |-> "", status |-> "", sortBy |-> "title"]

\* populateGenreFilter: the options appended to the genre dropdown
populateGenreFilter(gms) ==
    LET genres == {gms[i].genre : i \in 1..Len(gms)}
        Rank(g) == 1 + Cardinality({h \in genres : TextBefore(Chars(h), Chars(g))})
    IN  [p \in 1..Cardinality(genres) |-> CHOOSE g \in genres : Rank(g) = p]

getFilteredGames(gms, progress, f) ==
    LET searchLower == toLowerCase(f.search)
        SearchOk(game) ==
            \/ f.search = <<>>
            \/ includes(toLowerCase(game.title), searchLower)
            \/ includes(toLowerCase(Chars(game.genre)), searchLower)
            \/ \E j \in 1..Len(game.themes) :
                    includes(toLowerCase(Chars(game.themes[j])), searchLower)
        GenreOk(game)  == f.genre = "" \/ game.genre = f.genre
        DecadeOk(game) ==
            \/ f.decade = ""
            \/ (game.year >= parseInt(f.decade) /\ game.year <= endYear(parseInt(f.decade)))
        StatusOk(game) ==
            IF f.status = "played" THEN getGameProgress(progress, game.id).played
            ELSE IF f.status = "unplayed" THEN ~getGameProgress(progress, game.id).played
            ELSE TRUE
        Test(game) == SearchOk(game) /\ GenreOk(game) /\ DecadeOk(game) /\ StatusOk(game)
        filtered == FilterSeq(gms, Test)
        Less(a, b) ==
            CASE f.sortBy = "title"  -> TitleBefore(a.title, b.title)
              [] f.sortBy = "year"   -> b.year - a.year < 0
              [] f.sortBy = "rating" ->
                    getGameProgress(progress, b.id).rating
                      - getGameProgress(progress, a.id).rating < 0
              [] f.sortBy = "recent" ->
                    getGameProgress(progress, a.id).played
                      /\ ~getGameProgress(progress, b.id).played
              [] OTHER -> FALSE
    IN  StableSort(filtered, Less)

\* createGameCard: what a card shows of the progress record
createGameCard(progress, game) ==
    LET progressOf == getGameProgress(progress, game.id)
    IN  [id |-> game.id, played |-> progressOf.played, rating |-> progressOf.rating,
         notes |-> progressOf.notes]

BlankGrid == [kind |-> "blank", cards |-> <<>>]

\* showError(message)
ErrorGrid == [kind |-> "error", cards |-> <<>>]

\* renderGames: the new content of #games-grid
renderGames(gms, progress, f) ==
    LET filteredGames == getFilteredGames(gms, progress, f)
    IN  IF Len(filteredGames) = 0
        THEN [kind |-> "empty-state", cards |-> <<>>]
        ELSE [kind |-> "cards",
              cards |-> [i \in 1..Len(filteredGames) |-> createGameCard(progress, filteredGames[i])]]

\* updateStats: the new content of the statistics elements
updateStats(gms, progress) == calculateStats(gms, progress)

\* updateRecommendations: display of the section and content of the grid; an
\* empty result hides the section and leaves the grid as it was
RecommendationIds(gms, progress) ==
    LET recommendations == generateRecommendations(gms, progress)
    IN  [i \in 1..Len(recommendations) |-> recommendations[i].id]

updateRecommendations(gms, progress, grid) ==
    LET ids == RecommendationIds(gms, progress)
    IN  IF Len(ids) = 0
        THEN [display |-> "none", grid |-> grid]
        ELSE [display |-> "block", grid |-> ids]

-----------------------------------------------------------------------------
(* The state machine *)

\* what the page shows before the script has run
NoStats == [playedCount |-> 0, unplayedCount |-> 0,
            avgRating |-> [kind |-> "-", value |-> 0],
            completionPercentage |-> [kind |-> "blank", value |-> 0]]

Call(op, arg) == [op |-> op, arg |-> arg]

\* texts of at most MaxNoteLen characters that the notes field may hold
NoteChars == {" ", "a"}

NoteTexts == UNION {[1..n -> NoteChars] : n \in 0..MaxNoteLen}

\* persisted values found at startup
InitStorages ==
    { NoItem, EmptyText, Malformed,
      ObjectText(<<>>),
      ObjectText(<<[key |-> 1, value |-> Record(TRUE, 4, <<"a">>)]>>) }

Init ==
    /\ pc = "start"
    /\ storage \in InitStorages
    /\ games = <<>>
    /\ userProgress = EmptyStore
    /\ currentGameId = Null
    /\ filters = DefaultFilters
    /\ loadFailed = FALSE
    /\ listeners = FALSE
    /\ genreOptions = <<>>
    /\ gamesGrid = BlankGrid
    /\ statsView = NoStats
    /\ recSection = "none"
    /\ recGrid = <<>>
    /\ modalActive = FALSE
    /\ lastCall = Call("none", 0)

\* new GameTracker(): the constructor up to the first await of init(); a
\* SyntaxError of JSON.parse leaves the constructor and no object exists
Construct ==
    /\ pc = "start"
    /\ IF ParseThrows(storage)
       THEN /\ pc' = "crashed"
            /\ UNCHANGED userProgress
       ELSE /\ pc' = "loading"
            /\ userProgress' = loadProgress(storage)
    /\ UNCHANGED <<storage, games, currentGameId, filters, loadFailed, listeners,
                   genreOptions, gamesGrid, statsView, recSection, recGrid, modalActive>>

\* init() after `await this.loadGames()`
InitAfterLoad(failed) ==
    /\ pc' = "ready"
    /\ loadFailed' = failed
    /\ genreOptions' = populateGenreFilter(games')
    /\ gamesGrid' = renderGames(games', userProgress, filters)
    /\ statsView' = updateStats(games', userProgress)
    /\ LET rec == updateRecommendations(games', userProgress, recGrid)
       IN  recSection' = rec.display /\ recGrid' = rec.grid
    /\ listeners' = TRUE
    /\ UNCHANGED <<storage, userProgress, currentGameId, filters, modalActive>>

\* the fetch of games.json answers with a catalog
LoadGamesFrom(catalogs) ==
    /\ pc = "loading"
    /\ \E catalog \in catalogs : games' = catalog
    /\ InitAfterLoad(FALSE)

LoadGames == LoadGamesFrom(Catalogs)

\* the fetch or response.json() rejects: the catch branch calls showError,
\* and init() goes on
LoadGamesFails ==
    /\ pc = "loading"
    /\ games' = games
    /\ InitAfterLoad(TRUE)

-----------------------------------------------------------------------------
(* Handlers wired by attachEventListeners *)

Ready == pc = "ready" /\ listeners

\* ids of the cards that can be clicked: the game cards and, while the section
\* is displayed, the recommendation cards
ClickableIds ==
    {gamesGrid.cards[i].id : i \in 1..Len(gamesGrid.cards)}
        \cup (IF recSection = "block" THEN Range(recGrid) ELSE {})

\* this.games.find(g => g.id === gameId) finds a game
Found(gameId) == \E i \in 1..Len(games) : games[i].id = gameId

openGameModal(gameId) ==
    /\ IF ~Found(gameId)
       THEN UNCHANGED <<currentGameId, modalActive>>
       ELSE /\ currentGameId' = gameId
            /\ modalActive' = TRUE
    /\ UNCHANGED <<pc, storage, games, userProgress, filters, loadFailed, listeners,
                   genreOptions, gamesGrid, statsView, recSection, recGrid>>

OpenGameModal ==
    /\ Ready
    /\ \E gameId \in ClickableIds : openGameModal(gameId)

closeGameModal ==
    /\ modalActive' = FALSE
    /\ currentGameId' = Null
    /\ UNCHANGED <<pc, storage, games, userProgress, filters, loadFailed, listeners,
                   genreOptions, gamesGrid, statsView, recSection, recGrid>>

CloseGameModal == Ready /\ closeGameModal

\* variant: the item is not written
saveProgress_NoWrite ==
    /\ storage' = storage
    /\ statsView' = updateStats(games, userProgress')
    /\ LET rec == updateRecommendations(games, userProgress', recGrid)
       IN  recSection' = rec.display /\ recGrid' = rec.grid

\* variant: the statistics are refreshed from the store as it was before the
\* write
saveProgress_StaleStats ==
    /\ storage' = ObjectText(JSONstringify(userProgress'))
    /\ statsView' = updateStats(games, userProgress)
    /\ LET rec == updateRecommendations(games, userProgress', recGrid)
       IN  recSection' = rec.display /\ recGrid' = rec.grid

\* saveProgress(), after this.userProgress has its new value
saveProgress ==
    /\ storage' = ObjectText(JSONstringify(userProgress'))
    /\ statsView' = updateStats(games, userProgress')
    /\ LET rec == updateRecommendations(games, userProgress', recGrid)
       IN  recSection' = rec.display /\ recGrid' = rec.grid

updateGameProgress(gameId, progress) ==
    /\ userProgress' =
          Assign(userProgress, gameId, Spread(getGameProgress(userProgress, gameId), progress))
    /\ saveProgress

\* the part rateGame, markAsUnplayed, clearRating and saveNotes share: the
\* guard, the update and the re-rendering of the game list
Mutate(progress) ==
    IF Falsy(currentGameId)
    THEN UNCHANGED <<storage, userProgress, statsView, recSection, recGrid, gamesGrid>>
    ELSE /\ updateGameProgress(currentGameId, progress)
         /\ gamesGrid' = renderGames(games, userProgress', filters)

rateGame(rating) ==
    /\ Mutate([played |-> TRUE, rating |-> rating])
    /\ UNCHANGED <<pc, games, currentGameId, filters, loadFailed, listeners, genreOptions,
                   modalActive>>

RateGame ==
    /\ Ready
    /\ \E rating \in 1..MaxStars : rateGame(rating)

\* variant: the rating is kept when the game is marked as unplayed
markAsUnplayed_KeepRating ==
    /\ Mutate([played |-> FALSE])
    /\ UNCHANGED <<pc, games, currentGameId, filters, loadFailed, listeners, genreOptions,
                   modalActive>>

markAsUnplayed ==
    /\ Mutate([played |-> FALSE, rating |-> 0])
    /\ UNCHANGED <<pc, games, currentGameId, filters, loadFailed, listeners, genreOptions,
                   modalActive>>

MarkAsUnplayed == Ready /\ markAsUnplayed

clearRating ==
    /\ Mutate([played |-> FALSE, rating |-> 0])
    /\ UNCHANGED <<pc, games, currentGameId, filters, loadFailed, listeners, genreOptions,
                   modalActive>>

ClearRating == Ready /\ clearRating

\* variant: the text is added to the notes the record has
saveNotes_Append(text) ==
    /\ Mutate([notes |-> getGameProgress(userProgress, currentGameId).notes \o Trim(text)])
    /\ UNCHANGED <<pc, games, currentGameId, filters, loadFailed, listeners, genreOptions,
                   modalActive>>

\* text is the value of the notes field when the handler runs
saveNotes(text) ==
    /\ Mutate([notes |-> Trim(text)])
    /\ UNCHANGED <<pc, games, currentGameId, filters, loadFailed, listeners, genreOptions,
                   modalActive>>

SaveNotes ==
    /\ Ready
    /\ \E text \in NoteTexts : saveNotes(text)

Next ==
    \/ Construct /\ UNCHANGED lastCall
    \/ LoadGames /\ UNCHANGED lastCall
    \/ LoadGamesFails /\ UNCHANGED lastCall
    \/ OpenGameModal /\ UNCHANGED lastCall
    \/ CloseGameModal /\ UNCHANGED lastCall
    \/ RateGame /\ UNCHANGED lastCall
    \/ MarkAsUnplayed /\ UNCHANGED lastCall
    \/ ClearRating /\ UNCHANGED lastCall
    \/ SaveNotes /\ UNCHANGED lastCall

Spec == Init /\ [][Next]_vars

-----------------------------------------------------------------------------
(* The same handlers with the last call on record, on catalogs of at most  *)
(* two items.                                                              *)

PairCatalog == SubSeq(ExampleCatalog, 1, 2)

CallCatalogs == {ZeroCatalog, PairCatalog, EmptyCatalog}

LoadCallCatalog == LoadGamesFrom(CallCatalogs)

NextCalls ==
    \/ Construct /\ lastCall' = Call("constructor", 0)
    \/ LoadCallCatalog /\ lastCall' = Call("init", 0)
    \/ LoadGamesFails /\ lastCall' = Call("init", 0)
    \/ Ready /\ \E gameId \in ClickableIds :
            openGameModal(gameId) /\ lastCall' = Call("openGameModal", gameId)
    \/ CloseGameModal /\ lastCall' = Call("closeGameModal", 0)
    \/ Ready /\ \E rating \in 1..MaxStars :
            rateGame(rating) /\ lastCall' = Call("rateGame", rating)
    \/ MarkAsUnplayed /\ lastCall' = Call("markAsUnplayed", 0)
    \/ ClearRating /\ lastCall' = Call("clearRating", 0)
    \/ SaveNotes /\ lastCall' = Call("saveNotes", 0)

SpecCalls == Init /\ [][NextCalls]_vars

-----------------------------------------------------------------------------
(* The recommendation engine and the statistics on a large catalog: the    *)
(* application starts on a persisted store and renders once.               *)

\* records a persisted store may hold: those the handlers write, and records
\* of an edited store that are played without a rating or rated without
\* being played
RecRecords ==
    {Record(FALSE, 0, <<>>), Record(FALSE, MaxStars, <<>>)}
        \cup {Record(TRUE, r, <<>>) : r \in 0..MaxStars}

RecStores ==
    UNION {[K -> RecRecords] :
              K \in {K \in SUBSET (1..RecCatalogSize) : Cardinality(K) <= MaxTouched}}

RecStorages == {ObjectText(JSONstringify(store)) : store \in RecStores}

\* the state the constructor leaves on such a store
InitRec ==
    /\ pc = "loading"
    /\ storage \in RecStorages
    /\ games = <<>>
    /\ userProgress = loadProgress(storage)
    /\ currentGameId = Null
    /\ filters = DefaultFilters
    /\ loadFailed = FALSE
    /\ listeners = FALSE
    /\ genreOptions = <<>>
    /\ gamesGrid = BlankGrid
    /\ statsView = NoStats
    /\ recSection = "none"
    /\ recGrid = <<>>
    /\ modalActive = FALSE
    /\ lastCall = Call("none", 0)

LoadRecCatalog == LoadGamesFrom({RecCatalog})

NextRec == LoadRecCatalog /\ UNCHANGED lastCall

SpecRec == InitRec /\ [][NextRec]_vars

-----------------------------------------------------------------------------
(* The filter and sort controls, on a catalog whose years lie on the edges *)
(* of decades and on persisted stores that also hold a record of an id the *)
(* catalog no longer has.                                                  *)

ViewCatalog ==
    << Item(1, <<"D">>, 1989, "RPG", <<"Fantasy">>),
       Item(2, <<"A">>, 1990, "Puzzle", <<"Sci-Fi">>),
       Item(3, <<"C">>, 1999, "RPG", <<"Sci-Fi", "Story-Rich">>),
       Item(4, <<"B">>, 2000, "Action", <<"Story-Rich">>) >>

\* an id of no item of ViewCatalog
StaleId == Len(ViewCatalog) + 1

ViewStores ==
    { EmptyStore,
      (2 :> Record(TRUE, 4, <<>>)),
      (2 :> Record(TRUE, 4, <<>>)) @@ (3 :> Record(TRUE, 5, <<>>)),
      (2 :> Record(TRUE, 4, <<>>)) @@ (3 :> Record(TRUE, 5, <<>>))
          @@ (StaleId :> Record(TRUE, 3, <<>>)),
      (3 :> Record(FALSE, 0, <<"a">>)) @@ (StaleId :> Record(TRUE, 5, <<>>)) }

ViewStorages == {ObjectText(JSONstringify(store)) : store \in ViewStores}

\* the state the constructor leaves on such a store
InitView ==
    /\ pc = "loading"
    /\ storage \in ViewStorages
    /\ games = <<>>
    /\ userProgress = loadProgress(storage)
    /\ currentGameId = Null
    /\ filters = DefaultFilters
    /\ loadFailed = FALSE
    /\ listeners = FALSE
    /\ genreOptions = <<>>
    /\ gamesGrid = BlankGrid
    /\ statsView = NoStats
    /\ recSection = "none"
    /\ recGrid = <<>>
    /\ modalActive = FALSE
    /\ lastCall = Call("none", 0)

LoadViewCatalog == LoadGamesFrom({ViewCatalog})

\* texts typed into the search field
SearchChars == {"a", "P", "f"}

SearchTexts == UNION {[1..n -> SearchChars] : n \in 0..MaxSearchLen}

\* values of the options of the status and sort dropdowns
StatusOptions == {"", "played", "unplayed"}

SortOptions == {"title", "year", "rating", "recent"}

\* the listeners of the five controls: set one criterion, then renderGames()
SetFilters(newFilters) ==
    /\ Ready
    /\ filters' = newFilters
    /\ gamesGrid' = renderGames(games, userProgress, newFilters)
    /\ UNCHANGED <<pc, storage, games, userProgress, currentGameId, loadFailed, listeners,
                   genreOptions, statsView, recSection, recGrid, modalActive>>

SearchInput == \E value \in SearchTexts : SetFilters([filters EXCEPT !.search = value])

GenreChange ==
    \E value \in {""} \cup Range(genreOptions) : SetFilters([filters EXCEPT !.genre = value])

DecadeChange ==
    \E value \in {""} \cup Range(DecadeOptions) : SetFilters([filters EXCEPT !.decade = value])

StatusChange == \E value \in StatusOptions : SetFilters([filters EXCEPT !.status = value])

SortByChange == \E value \in SortOptions : SetFilters([filters EXCEPT !.sortBy = value])

NextView ==
    \/ LoadViewCatalog /\ UNCHANGED lastCall
    \/ SearchInput /\ UNCHANGED lastCall
    \/ GenreChange /\ UNCHANGED lastCall
    \/ DecadeChange /\ UNCHANGED lastCall
    \/ StatusChange /\ UNCHANGED lastCall
    \/ SortByChange /\ UNCHANGED lastCall

SpecView == InitView /\ [][NextView]_vars

-----------------------------------------------------------------------------
(* The notes field with long texts.  The field takes at most NotesLimit    *)
(* characters of what is typed or pasted into it.                          *)

LongText(n) == [i \in 1..n |-> "a"]

\* texts typed or pasted: short ones, one of exactly NotesLimit characters,
\* one of NotesLimit characters after a space, and one that is longer
TypedTexts ==
    NoteTexts \cup {LongText(NotesLimit), <<" ">> \o LongText(NotesLimit),
                    LongText(NotesLimit + 1)}

\* the value the notes field holds of a typed text
TextareaValue(typed) == Slice(typed, NotesLimit)

SaveTypedNotes ==
    /\ Ready
    /\ \E typed \in TypedTexts : saveNotes(TextareaValue(typed))

NextNotes ==
    \/ Construct /\ UNCHANGED lastCall
    \/ LoadCallCatalog /\ UNCHANGED lastCall
    \/ LoadGamesFails /\ UNCHANGED lastCall
    \/ OpenGameModal /\ UNCHANGED lastCall
    \/ CloseGameModal /\ UNCHANGED lastCall
    \/ RateGame /\ UNCHANGED lastCall
    \/ MarkAsUnplayed /\ UNCHANGED lastCall
    \/ ClearRating /\ UNCHANGED lastCall
    \/ SaveTypedNotes /\ UNCHANGED lastCall

SpecNotes == Init /\ [][NextNotes]_vars

-----------------------------------------------------------------------------
(* Claims *)

\* the played flag and the rating of a record
Marks(rec) == <<rec.played, rec.rating>>

Constructed == pc \in {"loading", "ready"}

\* positions of the catalog items that are played and rated
RatedItems == {i \in 1..Len(games) :
                  /\ getGameProgress(userProgress, games[i].id).played
                  /\ getGameProgress(userProgress, games[i].id).rating > 0}

RatingOf(i) == getGameProgress(userProgress, games[i].id).rating

Recommended == generateRecommendations(games, userProgress)

\* C1: whatever the id of the catalog item that openGameModal has opened,
\* after rateGame(r) with r in 1..5 getGameProgress(id) has played = true and
\* rating = r, and after markAsUnplayed() or clearRating() it has
\* played = false and rating = 0.
C1_RateAndClearAnyId ==
    (Ready /\ currentGameId # Null) =>
        /\ lastCall.op = "rateGame" =>
              Marks(getGameProgress(userProgress, currentGameId)) = <<TRUE, lastCall.arg>>
        /\ lastCall.op \in {"markAsUnplayed", "clearRating"} =>
              Marks(getGameProgress(userProgress, currentGameId)) = <<FALSE, 0>>

\* C2: once the application is constructed, and after any sequence of
\* rateGame, markAsUnplayed, clearRating and saveNotes, loadProgress() applied
\* to the item stored under 'gameTrackerProgress' yields the in-memory store,
\* and a stored text is the serialization of the whole in-memory store.
C2_StorageRoundTrip ==
    Constructed =>
        /\ loadProgress(storage) = userProgress
        /\ storage.kind = "object" => storage.entries = JSONstringify(userProgress)

C2_Witness ==
    /\ Ready
    /\ Len(storage.entries) >= 2
    /\ \E i \in 1..Len(storage.entries) :
          /\ storage.entries[i].value.notes # <<>>
          /\ storage.entries[i].value.played

\* C3: generateRecommendations returns the empty list (and the section is
\* hidden) whenever fewer than 2 catalog items are played and rated.
C3_ColdStart ==
    (pc = "ready" /\ Cardinality(RatedItems) < 2) =>
        /\ Recommended = <<>>
        /\ recSection = "none"

\* one item is rated, high enough to build a profile against which unplayed
\* games score
C3_Witness ==
    /\ pc = "ready"
    /\ Cardinality(RatedItems) = 1
    /\ Len(preferredGames(games, userProgress)) = 1
    /\ TopScored(games, userProgress) # <<>>
    /\ Recommended = <<>>

\* C4: in every reachable state no item returned by generateRecommendations
\* is played, and the recommendations grid, while displayed, shows exactly the
\* returned items.
C4_NoPlayedRecommended ==
    Ready =>
        /\ \A i \in 1..Len(Recommended) :
              ~getGameProgress(userProgress, Recommended[i].id).played
        /\ recSection = "block" =>
              /\ recGrid = [i \in 1..Len(Recommended) |-> Recommended[i].id]
              /\ \A id \in Range(recGrid) : ~getGameProgress(userProgress, id).played

C4_Witness ==
    /\ Ready
    /\ recSection = "block"
    /\ Len(recGrid) >= 1
    /\ Cardinality(RatedItems) >= 2

\* C5: generateRecommendations returns at most 6 items, each with a score
\* above 0, in non-increasing order of score, and no unplayed game left out has
\* a score strictly higher than a returned one.
C5_TopSix ==
    pc = "ready" =>
        \A recs \in {Recommended} : \A pref \in {preferredGames(games, userProgress)} :
            LET ScoreOf(game) == Score(pref, userProgress, game)
            IN  /\ Len(recs) <= 6
                /\ \A i \in 1..Len(recs) : ScoreOf(recs[i]) > 0
                /\ \A i, j \in 1..Len(recs) :
                      i < j => ScoreOf(recs[i]) >= ScoreOf(recs[j])
                /\ \A k \in 1..Len(games) :
                      (/\ ~getGameProgress(userProgress, games[k].id).played
                       /\ games[k] \notin Range(recs))
                         => \A i \in 1..Len(recs) : ScoreOf(games[k]) <= ScoreOf(recs[i])

\* six are returned with unequal scores and a seventh candidate that scores is
\* left out
C5_Witness ==
    /\ pc = "ready"
    /\ \E recs \in {Recommended} : \E pref \in {preferredGames(games, userProgress)} :
          LET ScoreOf(game) == Score(pref, userProgress, game)
          IN  /\ Len(recs) = 6
              /\ ScoreOf(recs[1]) > ScoreOf(recs[6])
              /\ \E k \in 1..Len(games) :
                    /\ ~getGameProgress(userProgress, games[k].id).played
                    /\ games[k] \notin Range(recs)
                    /\ ScoreOf(games[k]) > 0

\* the state of the worked example: A played and rated 5, B and C unplayed
ExampleState ==
    /\ Ready
    /\ games = ExampleCatalog
    /\ Marks(getGameProgress(userProgress, 1)) = <<TRUE, 5>>
    /\ ~getGameProgress(userProgress, 2).played
    /\ ~getGameProgress(userProgress, 3).played

\* C6 as stated: in the worked example generateRecommendations returns
\* exactly [B], B's score is 4.0 and C's score is 0.
C6_ExampleAsStated ==
    ExampleState =>
        /\ Recommended = <<ExampleCatalog[2]>>
        /\ Score(<<ExampleCatalog[1]>>, userProgress, ExampleCatalog[2]) = 40
        /\ Score(<<ExampleCatalog[1]>>, userProgress, ExampleCatalog[3]) = 0

\* C6, amended: in the worked example generateRecommendations returns the
\* empty list and the recommendations section is hidden, only one item being
\* rated.
C6_ExampleEmpty ==
    ExampleState =>
        /\ Recommended = <<>>
        /\ recSection = "none"

C6_Witness == ExampleState /\ currentGameId = 1

\* C7: the preference set is the rated items with rating >= 4 if there are
\* any, otherwise the rated items with rating >= 3; if it is empty the result
\* is the empty list; and when an item is rated 4 or 5 the genre weights add
\* up to the weights of the items rated 4 or 5 alone.
C7_PreferenceSet ==
    pc = "ready" =>
        \A pref \in {preferredGames(games, userProgress)} :
        LET high     == {i \in RatedItems : RatingOf(i) >= 4}
            mid      == {i \in RatedItems : RatingOf(i) >= 3}
            expected == IF high # {} THEN high ELSE mid
        IN  /\ Range(pref) = {games[i] : i \in expected}
            /\ Len(pref) = Cardinality(expected)
            /\ expected = {} => Recommended = <<>>
            /\ high # {} =>
                  SumSeq([k \in 1..Len(Genres) |-> genreWeights(pref, userProgress, Genres[k])])
                    = SumSeq([i \in 1..Len(games) |-> IF i \in high THEN 2 * RatingOf(i) ELSE 0])

\* an item rated 3 beside an item rated 4 or 5, and recommendations result
C7_Witness ==
    /\ pc = "ready"
    /\ \E i, j \in RatedItems : RatingOf(i) = 3 /\ RatingOf(j) >= 4
    /\ Recommended # <<>>

\* C8: if the catalog load fails, the error message stays displayed and no
\* listener is wired up.
C8_ErrorState ==
    loadFailed => (gamesGrid = ErrorGrid /\ ~listeners)

\* C9: at startup, when the persisted item is missing or is not a parseable
\* text, construction proceeds without an error on the empty mapping.
C9_StartupFallback ==
    (pc # "start" /\ storage.kind \in {"null", "empty", "malformed"}) =>
        (pc # "crashed" /\ userProgress = EmptyStore)

\* C10: with an empty catalog calculateStats returns a completion percentage
\* that is a number of percent, never the result of a division by zero.
C10_EmptyCatalogPercentage ==
    (Ready /\ Len(games) = 0) =>
        /\ calculateStats(games, userProgress).completionPercentage.kind = "%"
        /\ statsView.completionPercentage.kind = "%"

\* the catalog item passes every active criterion of f: the search text, in
\* lower case, occurs in the lower-cased title, genre or one of the themes; the
\* genre is the chosen one; the year lies in the chosen decade; the played flag
\* is the chosen status
Occurs(part, text) ==
    \E from \in 1..(Len(text) + 1) : \E to \in (from - 1)..Len(text) :
        toLowerCase(SubSeq(text, from, to)) = toLowerCase(part)

Passes(game, progress, f) ==
    /\ f.search # <<>> =>
          \/ Occurs(f.search, game.title)
          \/ Occurs(f.search, Chars(game.genre))
          \/ \E theme \in Range(game.themes) : Occurs(f.search, Chars(theme))
    /\ f.genre # "" => game.genre = f.genre
    /\ f.decade # "" =>
          \E d \in 0..9 : game.year = parseInt(f.decade) + d
    /\ f.status = "played" => getGameProgress(progress, game.id).played
    /\ f.status = "unplayed" => ~getGameProgress(progress, game.id).played

\* C11: getFilteredGames returns items of the catalog, none twice, each of
\* which passes every active filter, and every catalog item that passes all
\* active filters is returned; the game list shows exactly the returned items.
C11_FilteredExactly ==
    Ready =>
        \A out \in {getFilteredGames(games, userProgress, filters)} :
            /\ \A i, j \in 1..Len(out) : out[i] = out[j] => i = j
            /\ Range(out) = {game \in Range(games) : Passes(game, userProgress, filters)}
            /\ [i \in 1..Len(gamesGrid.cards) |-> gamesGrid.cards[i].id]
                  = [i \in 1..Len(out) |-> out[i].id]

\* all four filters are active, an item passes them all and an item of the
\* year after the decade does not
C11_Witness ==
    /\ Ready
    /\ filters.search # <<>>
    /\ filters.genre # ""
    /\ filters.decade = "1990"
    /\ filters.status = "played"
    /\ Len(gamesGrid.cards) = 1
    /\ \E game \in Range(games) : game.year = 2000

\* the records of the store whose key is the id of a catalog item
LiveRecords(gms, progress) ==
    [k \in {id \in DOMAIN progress : \E i \in 1..Len(gms) : gms[i].id = id} |-> progress[k]]

\* C12: records whose key is the id of no catalog item are ignored: the
\* statistics, the recommendations and the filtered list are those of the store
\* without such records, playedCount is at most the number of catalog items and
\* unplayedCount is not negative.
C12_StaleIgnored ==
    Ready =>
        \A live \in {LiveRecords(games, userProgress)} :
            /\ calculateStats(games, userProgress) = calculateStats(games, live)
            /\ statsView = calculateStats(games, live)
            /\ generateRecommendations(games, userProgress)
                  = generateRecommendations(games, live)
            /\ getFilteredGames(games, userProgress, filters)
                  = getFilteredGames(games, live, filters)
            /\ statsView.playedCount <= Len(games)
            /\ statsView.unplayedCount >= 0

StoreChanged == userProgress' # userProgress

ViewChanged ==
    \/ statsView' # statsView
    \/ gamesGrid' # gamesGrid
    \/ recSection' # recSection
    \/ recGrid' # recGrid

\* after the step the statistics, the recommendations and the game list are
\* those of the store the step leaves
RenderedFromNewStore ==
    /\ statsView' = calculateStats(games', userProgress')
    /\ gamesGrid' = renderGames(games', userProgress', filters')
    /\ \A ids \in {RecommendationIds(games', userProgress')} :
          IF ids = <<>> THEN recSection' = "none"
          ELSE recSection' = "block" /\ recGrid' = ids

\* C14: a step of a handler that changes the progress store leaves the whole
\* new store persisted and the statistics, the recommendations and the game
\* list rendered from the new store; and whenever a step re-renders one of the
\* three, the store it renders is the persisted one.
C14_WriteBeforeRender ==
    [][ Ready =>
          /\ StoreChanged =>
                /\ storage' = ObjectText(JSONstringify(userProgress'))
                /\ RenderedFromNewStore
          /\ ViewChanged =>
                /\ loadProgress(storage') = userProgress'
                /\ RenderedFromNewStore ]_vars

\* a rating of 3 stars, which no store read at startup holds, is stored,
\* persisted, counted and shown on the card
C14_Witness ==
    /\ Ready
    /\ storage.kind = "object"
    /\ \E k \in DOMAIN userProgress :
          /\ userProgress[k].rating = 3
          /\ \E i \in 1..Len(storage.entries) :
                storage.entries[i].key = k /\ storage.entries[i].value.rating = 3
          /\ \E i \in 1..Len(gamesGrid.cards) :
                gamesGrid.cards[i].id = k /\ gamesGrid.cards[i].rating = 3
    /\ statsView.playedCount >= 1

\* C15: after any sequence of openGameModal, rateGame (1 to 5 stars),
\* markAsUnplayed, clearRating, saveNotes and closeGameModal, every record of
\* the store is played if and only if its rating is above 0.
C15_PlayedIffRated ==
    \A k \in DOMAIN userProgress : userProgress[k].played <=> (userProgress[k].rating > 0)

\* the store holds a record that was rated with other than the 4 stars of a
\* store read at startup, and a record that was reset or only annotated
C15_Witness ==
    /\ Ready
    /\ \E k \in DOMAIN userProgress :
          userProgress[k].played /\ userProgress[k].rating \in {1, 2, 5}
    /\ \E k \in DOMAIN userProgress :
          ~userProgress[k].played /\ userProgress[k].rating = 0

RatingOps == {"rateGame", "markAsUnplayed", "clearRating"}

\* C16: a step of rateGame, markAsUnplayed, clearRating or saveNotes changes
\* at most the record of the item open in the modal; the first three leave its
\* notes as they were and saveNotes leaves its played flag and rating as they
\* were; the records of all other items stay; and with no item open the store
\* and the persisted item stay as they were.
C16_FrameOfProgressActions ==
    [][ (Ready /\ lastCall'.op \in RatingOps \cup {"saveNotes"}) =>
          /\ \A k \in (DOMAIN userProgress \cup DOMAIN userProgress') \ {currentGameId} :
                /\ k \in DOMAIN userProgress
                /\ k \in DOMAIN userProgress'
                /\ userProgress'[k] = userProgress[k]
          /\ (currentGameId # Null /\ lastCall'.op \in RatingOps) =>
                getGameProgress(userProgress', currentGameId).notes
                  = getGameProgress(userProgress, currentGameId).notes
          /\ (currentGameId # Null /\ lastCall'.op = "saveNotes") =>
                Marks(getGameProgress(userProgress', currentGameId))
                  = Marks(getGameProgress(userProgress, currentGameId))
          /\ currentGameId = Null =>
                (userProgress' = userProgress /\ storage' = storage) ]_vars

\* notes were saved on an open item that is rated, beside the record of
\* another item; and a rating was reset on an item that has notes
C16_Witness ==
    /\ Ready
    /\ currentGameId # Null
    /\ currentGameId \in DOMAIN userProgress
    /\ \/ /\ lastCall.op = "saveNotes"
          /\ userProgress[currentGameId].notes # <<>>
          /\ userProgress[currentGameId].rating \in {1, 2, 3, 5}
       \/ /\ lastCall.op \in {"markAsUnplayed", "clearRating"}
          /\ userProgress[currentGameId].notes # <<>>
          /\ ~userProgress[currentGameId].played
    /\ DOMAIN userProgress # {currentGameId}

====
